---- MODULE Spec2Model ----
(***************************************************************************)
(* A model of the Events class of src/src/main/python/Events.py: the       *)
(* table of columns and rows, and its load / save / sort_events /          *)
(* get_column operations.                                                  *)
(*                                                                         *)
(* Representation.                                                         *)
(*   - a path or a file name is a sequence of tokens ("/", "_", "task-",   *)
(*     a label, a suffix): partition, endswith, `in` and os.path.dirname   *)
(*     are computed on the tokens;                                         *)
(*   - a text value of a tabular file is a sequence of one-character       *)
(*     strings (<<"1","0">> is '10'), so that numpy's string order and the *)
(*     numeric value of a field are both computed from the characters;     *)
(*   - a Python value is tagged: Str(t), Num(n) (a float64 of the binary   *)
(*     container, with an integral value), NoneValue, List(l);             *)
(*   - a dict is a function from its keys; the key None that               *)
(*     csv.DictReader gives to surplus fields is RestKey;                  *)
(*   - a tabular file is the rows the csv module reads from it, each a     *)
(*     sequence of fields; csv's quoting layer is the library's.           *)
(***************************************************************************)
EXTENDS Integers, Sequences, FiniteSets, TLC

VARIABLES columns, rows, task, ret, inp, trace, disk, default_data, other_columns

vars == <<columns, rows, task, ret, inp, trace, disk, default_data, other_columns>>

(***************************************************************************)
(* Bounds of the explored inputs.                                          *)
(***************************************************************************)
MaxRows == 2

MaxCols == 3

MaxEvents == 2

(***************************************************************************)
(* Generic helpers.                                                        *)
(***************************************************************************)
Range(s) == {s[i] : i \in DOMAIN s}

Min(a, b) == IF a < b THEN a ELSE b

SeqsUpTo(S, n) == UNION {[1..k -> S] : k \in 0..n}

Permutations1(n) == {p \in [1..n -> 1..n] : \A i, j \in 1..n : i # j => p[i] # p[j]}

\* s[0:n] of Python
Take(s, n) == SubSeq(s, 1, Min(n, Len(s)))

\* s[n:] of Python
Drop(s, n) == SubSeq(s, n + 1, Len(s))

\* the first index of x in s, 0 when absent
IndexOf(s, x) ==
    IF x \in Range(s)
    THEN CHOOSE i \in DOMAIN s : s[i] = x /\ \A j \in 1..(i - 1) : s[j] # x
    ELSE 0

\* Python's `sub in s` on token sequences: sub is a contiguous part of s
Contains(s, sub) == \E i \in 0..(Len(s) - Len(sub)) : SubSeq(s, i + 1, i + Len(sub)) = sub

\* Python's s.endswith(suf)
EndsWith(s, suf) == Len(s) >= Len(suf) /\ SubSeq(s, Len(s) - Len(suf) + 1, Len(s)) = suf

(***************************************************************************)
(* Python values.                                                          *)
(***************************************************************************)
Str(t) == [s |-> t]

Num(n) == [n |-> n]

NoneValue == [none |-> TRUE]

List(l) == [l |-> l]

IsStr(v) == DOMAIN v = {"s"}

IsNum(v) == DOMAIN v = {"n"}

IsNone(v) == DOMAIN v = {"none"}

RestKey == "<None>"

\* d[k] = v on a dict
DictSet(d, k, v) == [x \in DOMAIN d \cup {k} |-> IF x = k THEN v ELSE d[x]]

EmptyDict == <<>>

(***************************************************************************)
(* Paths: Events.load, lines 145-160.                                      *)
(***************************************************************************)
\* s.partition(sep)[2]: what follows the first sep, '' when sep is absent
PartitionAfter(s, sep) == IF IndexOf(s, sep) = 0 THEN <<>> ELSE Drop(s, IndexOf(s, sep))

\* s.partition(sep)[0]: what precedes the first sep, s when sep is absent
PartitionBefore(s, sep) == IF IndexOf(s, sep) = 0 THEN s ELSE Take(s, IndexOf(s, sep) - 1)

\* filename.partition("task-")[2].partition("_")[0]
TaskOf(filename) == PartitionBefore(PartitionAfter(filename, "task-"), "_")

\* the last index of "/" in p, 0 when absent
LastSlash(p) ==
    IF "/" \in Range(p)
    THEN CHOOSE i \in DOMAIN p : p[i] = "/" /\ \A j \in (i + 1)..Len(p) : p[j] # "/"
    ELSE 0

RECURSIVE RStripSlash(_)
RStripSlash(p) == IF p # <<>> /\ p[Len(p)] = "/" THEN RStripSlash(Take(p, Len(p) - 1)) ELSE p

\* os.path.dirname (posixpath): the head up to the last "/", without its
\* trailing slashes unless it is made of slashes only
Dirname(p) ==
    LET head == Take(p, LastSlash(p)) IN
    IF head # <<>> /\ Range(head) # {"/"} THEN RStripSlash(head) ELSE head

EventsJson == <<"_", "events.json">>

EventsTsv == <<"_", "events.tsv">>

DotSnirf == <<".snirf">>

(***************************************************************************)
(* JSON documents and the sidecar search.                                  *)
(***************************************************************************)
Malformed == [malformed |-> TRUE]

Obj(f) == [obj |-> f]

IsObj(v) == DOMAIN v = {"obj"}

\* os.listdir(d) in the directory tree ls: a directory that is not there
\* (the empty path '' never is) raises FileNotFoundError, one that cannot be
\* listed raises PermissionError
ListDir(ls, d) ==
    IF d \notin DOMAIN ls THEN [raised |-> "FileNotFoundError"]
    ELSE IF "error" \in DOMAIN ls[d] THEN [raised |-> ls[d].error]
    ELSE [raised |-> "none", files |-> ls[d].files]

\* file.endswith('_events.json') and self.task in file
Matches(file, t) == EndsWith(file, EventsJson) /\ Contains(file, t)

\* the inner loop of lines 155-159: the first matching entry of the listing
\* is parsed (json.load raises on a malformed file) and the loop breaks;
\* without a match sidecar_contents keeps its value
FirstMatch(files, t, contents) ==
    LET hits == {i \in DOMAIN files : Matches(files[i].name, t)} IN
    IF hits = {} THEN [raised |-> "none", contents |-> contents]
    ELSE LET i == CHOOSE h \in hits : \A g \in hits : h <= g IN
         IF files[i].content = Malformed THEN [raised |-> "JSONDecodeError", contents |-> contents]
         ELSE [raised |-> "none", contents |-> files[i].content]

SearchLevels == 4

\* the outer loop of lines 152-160 from level lvl (0-based) on: every level
\* is listed, whatever the levels below it gave
RECURSIVE SearchFrom(_, _, _, _, _)
SearchFrom(ls, current_dir, t, lvl, contents) ==
    IF lvl >= SearchLevels THEN [raised |-> "none", contents |-> contents, listed |-> <<>>]
    ELSE LET l == ListDir(ls, current_dir) IN
         IF l.raised # "none" THEN [raised |-> l.raised, contents |-> contents, listed |-> <<current_dir>>]
         ELSE LET m == FirstMatch(l.files, t, contents) IN
              IF m.raised # "none" THEN [raised |-> m.raised, contents |-> contents, listed |-> <<current_dir>>]
              ELSE LET r == SearchFrom(ls, Dirname(current_dir), t, lvl + 1, m.contents) IN
                   [raised |-> r.raised, contents |-> r.contents, listed |-> <<current_dir>> \o r.listed]

\* lines 147-165: the sidecar contents load resolves, or what it raises.
\* sidecar is None ([kind |-> "none"]), 'search', or a path whose file holds
\* doc (open raises FileNotFoundError when the file is not there). listed is
\* the directories os.listdir was called on
ResolveSidecar(filename, sidecar, ls) ==
    IF sidecar.kind = "search"
    THEN IF TaskOf(filename) = <<>>
         THEN [raised |-> "ValueError", contents |-> NoneValue, listed |-> <<>>]
         ELSE SearchFrom(ls, Dirname(filename), TaskOf(filename), 0, NoneValue)
    ELSE IF sidecar.kind = "path"
    THEN IF sidecar.doc = [absent |-> TRUE]
         THEN [raised |-> "FileNotFoundError", contents |-> NoneValue, listed |-> <<>>]
         ELSE IF sidecar.doc = Malformed
         THEN [raised |-> "JSONDecodeError", contents |-> NoneValue, listed |-> <<>>]
         ELSE [raised |-> "none", contents |-> sidecar.doc, listed |-> <<>>]
    ELSE [raised |-> "none", contents |-> NoneValue, listed |-> <<>>]

(***************************************************************************)
(* Columns: EventColumn and the column loops of _load_tsv and _load_snirf. *)
(***************************************************************************)
column_names(cols) == [i \in DOMAIN cols |-> cols[i].name]

\* EventColumn(key) with the default data, then col.data = sidecar_contents[key]
\* when the sidecar has the key (lines 181-185, 206-219). The data setter of
\* DictWrapper (lines 38-43) raises ValueError for a value that is no dict.
\* A sidecar whose JSON value is neither null nor an object (a string, a
\* list, a number) has no keys(): line 184 / 218 raises AttributeError.
\* The default of the data parameter (line 64) is one dict, made when the
\* function is defined: a column given neither a built-in default (default is
\* EmptyDict) nor a sidecar value holds that dict itself, own is FALSE, and
\* its data is read through View.
NewColumn(key, default, sidecar_contents) ==
    IF ~IsNone(sidecar_contents) /\ ~IsObj(sidecar_contents)
    THEN [raised |-> "AttributeError"]
    ELSE IF IsObj(sidecar_contents) /\ key \in DOMAIN sidecar_contents.obj
    THEN IF IsObj(sidecar_contents.obj[key])
         THEN [raised |-> "none", col |-> [name |-> key, data |-> sidecar_contents.obj[key].obj, own |-> TRUE]]
         ELSE [raised |-> "ValueError"]
    ELSE [raised |-> "none", col |-> [name |-> key, data |-> default, own |-> default # EmptyDict]]

\* col.data of the columns cols when the dict that is the default of
\* EventColumn.__init__ holds shared: a column that was given no other dict
\* holds that one object, and reads whatever it holds now
View(cols, shared) == [i \in DOMAIN cols |-> IF cols[i].own THEN cols[i] ELSE [cols[i] EXCEPT !.data = shared]]

(***************************************************************************)
(* The tabular loader: Events._load_tsv, lines 175-188.                    *)
(***************************************************************************)
Absent == [absent |-> TRUE]

EmptyFile == [empty |-> TRUE]

\* lines 179-186: one column per header name that is not a column yet
RECURSIVE TsvColumns(_, _, _)
TsvColumns(keys, cols, sidecar_contents) ==
    IF keys = <<>> THEN [raised |-> "none", columns |-> cols]
    ELSE IF keys[1] \in Range(column_names(cols)) THEN TsvColumns(Tail(keys), cols, sidecar_contents)
    ELSE LET c == NewColumn(keys[1], EmptyDict, sidecar_contents) IN
         IF c.raised # "none" THEN [raised |-> c.raised, columns |-> cols]
         ELSE TsvColumns(Tail(keys), Append(cols, c.col), sidecar_contents)

\* dict(zip(fieldnames, row)): a later field of a repeated name replaces the earlier
RECURSIVE ZipDict(_, _, _)
ZipDict(fieldnames, row, d) ==
    IF fieldnames = <<>> \/ row = <<>> THEN d
    ELSE ZipDict(Tail(fieldnames), Tail(row), DictSet(d, fieldnames[1], Str(row[1])))

\* for key in fieldnames[lr:]: d[key] = restval (None)
RECURSIVE FillRest(_, _)
FillRest(keys, d) == IF keys = <<>> THEN d ELSE FillRest(Tail(keys), DictSet(d, keys[1], NoneValue))

\* csv.DictReader.__next__ on one row that is not blank: surplus fields go
\* under the key None as a list, missing fields are None
DictRow(fieldnames, row) ==
    LET d == ZipDict(fieldnames, row, EmptyDict) IN
    IF Len(fieldnames) < Len(row) THEN DictSet(d, RestKey, List(Drop(row, Len(fieldnames))))
    ELSE IF Len(fieldnames) > Len(row) THEN FillRest(Drop(fieldnames, Len(row)), d)
    ELSE d

\* line 187-188: one Event per row; csv.DictReader skips the blank rows
RECURSIVE TsvRows(_, _, _)
TsvRows(fieldnames, lines, rws) ==
    IF lines = <<>> THEN rws
    ELSE IF lines[1] = <<>> THEN TsvRows(fieldnames, Tail(lines), rws)
    ELSE TsvRows(fieldnames, Tail(lines), Append(rws, DictRow(fieldnames, lines[1])))

\* _load_tsv: open raises FileNotFoundError for a file that is not there;
\* reader.fieldnames is None for an empty file and the loop over it raises
\* TypeError
load_tsv(content, sidecar_contents, cols, rws) ==
    IF content = Absent THEN [raised |-> "FileNotFoundError", columns |-> cols, rows |-> rws]
    ELSE IF content = EmptyFile THEN [raised |-> "TypeError", columns |-> cols, rows |-> rws]
    ELSE LET c == TsvColumns(content.header, cols, sidecar_contents) IN
         IF c.raised # "none" THEN [raised |-> c.raised, columns |-> c.columns, rows |-> rws]
         ELSE [raised |-> "none", columns |-> c.columns, rows |-> TsvRows(content.header, content.rows, rws)]

(***************************************************************************)
(* The binary loader: Events._load_snirf, lines 190-226.                   *)
(* A container is the sequence of its nirs groups, a group the sequence of *)
(* its stim entries [name, dataLabels, data]; data is [shape, v], v[i][j]  *)
(* the array's value at row i, column j (1-based here).                    *)
(***************************************************************************)
SNIRF_STIM_ONSET_DESCRIPTION == "Time relative to the time origin when the stimulus takes on a value."

SNIRF_STIM_ONSET_UNITS == "s"

SNIRF_STIM_DURATION_DESCRIPTION == "The time in seconds that the stimulus value continues following the onset."

SNIRF_STIM_DURATION_UNITS == "s"

SNIRF_STIM_AMPLITUDE_DESCRIPTION == "Amplitude of the stimulus (from SNIRF)."

SNIRF_STIM_NAME_DESCRIPTION == "A string describing the stimulus condition (from SNIRF)."

\* lines 206-215: the data a new column starts with
DefaultData(key) ==
    IF key = "onset" THEN [Description |-> SNIRF_STIM_ONSET_DESCRIPTION, Units |-> SNIRF_STIM_ONSET_UNITS]
    ELSE IF key = "duration" THEN [Description |-> SNIRF_STIM_DURATION_DESCRIPTION, Units |-> SNIRF_STIM_DURATION_UNITS]
    ELSE IF key = "value" THEN [Description |-> SNIRF_STIM_AMPLITUDE_DESCRIPTION]
    ELSE IF key = "trial_type" THEN [trial_type |-> SNIRF_STIM_NAME_DESCRIPTION]
    ELSE EmptyDict

\* "column{}".format(i)
ColumnFormat(i) == <<"column0", "column1", "column2", "column3", "column4", "column5">>[i + 1]

DefaultLabels == <<"onset", "duration", "value">>

\* lines 195-203: the labels of one stim with ncol array columns
StimColumnNames(stim, ncol) ==
    LET declared == IF IsNone(stim.dataLabels) THEN DefaultLabels ELSE stim.dataLabels.l
        truncated == Take(declared, ncol)
        padded == IF Len(truncated) < ncol
                  THEN truncated \o [i \in 1..(ncol - Len(truncated)) |-> ColumnFormat(i - 1)]
                  ELSE truncated
    IN padded \o <<"trial_type">>

\* lines 204-220: one column per label that is not a column yet
RECURSIVE SnirfColumns(_, _, _)
SnirfColumns(keys, cols, sidecar_contents) ==
    IF keys = <<>> THEN [raised |-> "none", columns |-> cols]
    ELSE IF keys[1] \in Range(column_names(cols)) THEN SnirfColumns(Tail(keys), cols, sidecar_contents)
    ELSE LET c == NewColumn(keys[1], DefaultData(keys[1]), sidecar_contents) IN
         IF c.raised # "none" THEN [raised |-> c.raised, columns |-> cols]
         ELSE SnirfColumns(Tail(keys), Append(cols, c.col), sidecar_contents)

\* lines 222-225: the event of array row i
RECURSIVE EventData(_, _, _, _, _)
EventData(names, stim, i, j, d) ==
    IF j > stim.data.shape[2] THEN DictSet(d, "trial_type", Str(stim.name))
    ELSE EventData(names, stim, i, j + 1, DictSet(d, names[j], Num(stim.data.v[i][j])))

StimRows(names, stim) == [i \in 1..stim.data.shape[1] |-> EventData(names, stim, i, 1, EmptyDict)]

\* lines 194-226 over the stims in container order; stim.data.shape[1] of an
\* array with one dimension raises IndexError
RECURSIVE SnirfStims(_, _, _, _, _)
SnirfStims(stims, sidecar_contents, cols, rws, labels) ==
    IF stims = <<>> THEN [raised |-> "none", columns |-> cols, rows |-> rws, labels |-> labels]
    ELSE IF Len(stims[1].data.shape) < 2 THEN [raised |-> "IndexError", columns |-> cols, rows |-> rws, labels |-> labels]
    ELSE LET names == StimColumnNames(stims[1], stims[1].data.shape[2])
             c == SnirfColumns(names, cols, sidecar_contents)
         IN IF c.raised # "none" THEN [raised |-> c.raised, columns |-> c.columns, rows |-> rws, labels |-> Append(labels, names)]
            ELSE SnirfStims(Tail(stims), sidecar_contents, c.columns, rws \o StimRows(names, stims[1]), Append(labels, names))

\* for nirs in s.nirs: for stim in nirs.stim
RECURSIVE Flatten(_)
Flatten(groups) == IF groups = <<>> THEN <<>> ELSE groups[1] \o Flatten(Tail(groups))

\* _load_snirf: Snirf(snirf) raises for a file that is not there
load_snirf(content, sidecar_contents, cols, rws) ==
    IF content = Absent THEN [raised |-> "FileNotFoundError", columns |-> cols, rows |-> rws, labels |-> <<>>]
    ELSE SnirfStims(Flatten(content.nirs), sidecar_contents, cols, rws, <<>>)

(***************************************************************************)
(* Events.load, lines 130-172.                                             *)
(***************************************************************************)
\* the whole of load on a table: the state it leaves, what it raises, and
\* the values of its locals
load(filename, sidecar, ls, content) ==
    LET sc == ResolveSidecar(filename, sidecar, ls) IN
    IF sc.raised # "none"
    THEN [raised |-> sc.raised, columns |-> <<>>, rows |-> <<>>, sidecar_contents |-> NoneValue, listed |-> sc.listed, labels |-> <<>>]
    ELSE IF EndsWith(filename, EventsTsv)
    THEN LET r == load_tsv(content, sc.contents, <<>>, <<>>) IN
         [raised |-> r.raised, columns |-> r.columns, rows |-> r.rows, sidecar_contents |-> sc.contents, listed |-> sc.listed, labels |-> <<>>]
    ELSE IF EndsWith(filename, DotSnirf)
    THEN LET r == load_snirf(content, sc.contents, <<>>, <<>>) IN
         [raised |-> r.raised, columns |-> r.columns, rows |-> r.rows, sidecar_contents |-> sc.contents, listed |-> sc.listed, labels |-> r.labels]
    ELSE [raised |-> "ValueError", columns |-> <<>>, rows |-> <<>>, sidecar_contents |-> sc.contents, listed |-> sc.listed, labels |-> <<>>]

(***************************************************************************)
(* Events.get_column and Events.sort_events, lines 243-256.                *)
(***************************************************************************)
\* [row[name] for row in self._rows]: KeyError at the first row without the key
get_column(rws, name) ==
    IF \E i \in DOMAIN rws : name \notin DOMAIN rws[i] THEN [raised |-> "KeyError"]
    ELSE [raised |-> "none", value |-> [i \in DOMAIN rws |-> rws[i][name]]]

\* the code point of a character
Ord(c) ==
    CASE c = "." -> 46 [] c = "0" -> 48 [] c = "1" -> 49 [] c = "2" -> 50 [] c = "3" -> 51
      [] c = "4" -> 52 [] c = "5" -> 53 [] c = "6" -> 54 [] c = "7" -> 55 [] c = "8" -> 56
      [] c = "9" -> 57 [] c = "A" -> 65 [] c = "B" -> 66 [] c = "x" -> 120 [] c = "y" -> 121

\* the order of numpy's unicode arrays: by code point, a prefix first
RECURSIVE TextLess(_, _)
TextLess(a, b) ==
    IF b = <<>> THEN FALSE
    ELSE IF a = <<>> THEN TRUE
    ELSE IF a[1] # b[1] THEN Ord(a[1]) < Ord(b[1])
    ELSE TextLess(Tail(a), Tail(b))

\* the decimal digits of a natural number
RECURSIVE Digits(_)
Digits(n) ==
    IF n < 10 THEN <<<<"0", "1", "2", "3", "4", "5", "6", "7", "8", "9">>[n + 1]>>
    ELSE Digits(n \div 10) \o Digits(n % 10)

\* the element of the unicode array numpy makes of a list that holds a str:
\* the str itself, and for a float64 of integral value its text ('1.0')
ArrayText(v) == IF IsStr(v) THEN v.s ELSE Digits(v.n) \o <<".", "0">>

\* np.argsort(onsets) with the default kind. A list of float64 makes a float
\* array, where the default kind promises no order among equal keys; a list
\* of str, or of str and float64, makes a unicode array, which numpy sorts by
\* insertion below 17 elements, so equal keys keep their order; a list with a
\* None makes an object array whose comparisons raise TypeError as soon as
\* there are two elements.
\* The result is the set of index sequences (1-based) the call may return.
argsort(onsets) ==
    LET n == Len(onsets) IN
    IF \A i \in 1..n : IsNum(onsets[i])
    THEN [raised |-> "none",
          order |-> {p \in Permutations1(n) : \A i, j \in 1..n : i < j => onsets[p[i]].n <= onsets[p[j]].n}]
    ELSE IF \A i \in 1..n : IsStr(onsets[i]) \/ IsNum(onsets[i])
    THEN [raised |-> "none",
          order |-> {p \in Permutations1(n) : \A i, j \in 1..n : i < j =>
                       \/ TextLess(ArrayText(onsets[p[i]]), ArrayText(onsets[p[j]]))
                       \/ (ArrayText(onsets[p[i]]) = ArrayText(onsets[p[j]]) /\ p[i] < p[j])}]
    ELSE IF n >= 2 THEN [raised |-> "TypeError", order |-> {}]
    ELSE [raised |-> "none", order |-> Permutations1(n)]

\* sort_events: `except KeyError(self)` names an instance, not a class, so
\* the KeyError of get_column is answered by a TypeError and nothing is caught
sort_events(rws) ==
    LET onsets == get_column(rws, "onset") IN
    IF onsets.raised # "none" THEN [raised |-> "TypeError", rows |-> {rws}]
    ELSE LET a == argsort(onsets.value) IN
         IF a.raised # "none" THEN [raised |-> a.raised, rows |-> {rws}]
         ELSE [raised |-> "none", rows |-> {[i \in DOMAIN rws |-> rws[p[i]]] : p \in a.order}]

(***************************************************************************)
(* Events.save, lines 118-128.                                             *)
(***************************************************************************)
\* FieldText with repr() in place of str(): a str is written in quotes
FieldTextRepr(v) == IF DOMAIN v = {"none"} THEN <<>> ELSE IF DOMAIN v = {"s"} THEN <<"'">> \o v.s \o <<"'">> ELSE Digits(v.n) \o <<".", "0">>

\* the field csv.writer writes for a value: '' for None, the text of a str,
\* str() of a float64 with an integral value
FieldText(v) == IF IsNone(v) THEN <<>> ELSE IF IsStr(v) THEN v.s ELSE Digits(v.n) \o <<".", "0">>

\* RowFields without restval: a fieldname that is no key of the record gives
\* no field at all, and the fields after it move left
RowFieldsPresentOnly(fieldnames, row) ==
    LET present == SelectSeq(fieldnames, LAMBDA k : k \in DOMAIN row) IN
    [j \in DOMAIN present |-> FieldText(row[present[j]])]

\* DictWriter._dict_to_list: a key that is no fieldname raises ValueError,
\* a fieldname that is no key gives restval ''
RowFields(fieldnames, row) == [j \in DOMAIN fieldnames |-> IF fieldnames[j] \in DOMAIN row THEN FieldText(row[fieldnames[j]]) ELSE <<>>]

RECURSIVE WriteRows(_, _, _)
WriteRows(fieldnames, rws, written) ==
    IF rws = <<>> THEN [raised |-> "none", rows |-> written]
    ELSE IF DOMAIN rws[1] \ Range(fieldnames) # {} THEN [raised |-> "ValueError", rows |-> written]
    ELSE WriteRows(fieldnames, Tail(rws), Append(written, RowFields(fieldnames, rws[1])))

\* Events.column_descriptions, lines 236-241
column_descriptions(cols) == [k \in Range(column_names(cols)) |-> Obj((CHOOSE c \in Range(cols) : c.name = k).data)]

\* save: the files it leaves (the sidecar is written after the table, and
\* only when a sidecar path is given) and what it raises
save(cols, rws, with_sidecar, old) ==
    LET w == WriteRows(column_names(cols), rws, <<>>)
        tsv == [header |-> column_names(cols), rows |-> w.rows]
    IN [raised |-> w.raised,
        disk |-> [tsv |-> tsv,
                  json |-> IF w.raised = "none" /\ with_sidecar THEN Obj(column_descriptions(cols)) ELSE old.json]]

(***************************************************************************)
(* The inputs explored.                                                    *)
(***************************************************************************)
DeepTsv == <<"/", "ds", "/", "sub", "/", "ses", "/", "nirs", "/", "sub", "_", "task-", "rest", "_", "events.tsv">>

ShallowTsv == <<"nirs", "/", "sub", "_", "task-", "rest", "_", "events.tsv">>

NoTaskTsv == <<"/", "ds", "/", "sub", "_", "events.tsv">>

DeepSnirf == <<"/", "ds", "/", "sub", "/", "ses", "/", "nirs", "/", "sub", "_", "task-", "rest", "_", "nirs", ".snirf">>

CsvFile == <<"/", "ds", "/", "sub", "_", "task-", "rest", "_", "events", ".csv">>

OutTsv == <<"/", "out", "/", "sub", "_", "task-", "rest", "_", "events.tsv">>

NoSidecar == [kind |-> "none"]

SearchSidecar == [kind |-> "search"]

PathSidecar(doc) == [kind |-> "path", doc |-> doc]

\* sidecar documents
DocOnset == Obj([onset |-> Obj([Description |-> "stimulus start", Units |-> "ms"])])

DocAll == Obj([onset |-> Obj([Units |-> "samples"]), a |-> Obj([Levels |-> "x,y"]), trial_type |-> Obj([Description |-> "condition"])])

\* sidecar files whose JSON value is no object: "x", ["x"] and null
DocText == Str(<<"x">>)

DocList == List(<<Str(<<"x">>)>>)

DocNull == NoneValue

DocNoDict == Obj([onset |-> Obj([Units |-> "ms"]), a |-> Str(<<"x">>), duration |-> Str(<<"x">>)])

\* directory entries and listings
SidecarName == <<"sub", "_", "task-", "rest", "_", "events.json">>

LongerTaskName == <<"sub", "_", "task-", "pre", "rest", "_", "events.json">>

OtherTaskName == <<"sub", "_", "task-", "walk", "_", "events.json">>

Entry(name, doc) == [name |-> name, content |-> doc]

DocLonger == Obj([onset |-> Obj([Units |-> "longer"])])

Listings ==
    { <<>>,
      <<Entry(SidecarName, DocOnset)>>,
      <<Entry(SidecarName, DocAll)>>,
      <<Entry(OtherTaskName, DocOnset), Entry(LongerTaskName, DocLonger), Entry(SidecarName, DocOnset)>> }

Unlistable == [error |-> "PermissionError"]

DirStates == {[files |-> l] : l \in Listings} \cup {Unlistable}

BadListing == [files |-> <<Entry(SidecarName, Malformed)>>]

PlainStates == {[files |-> <<>>], [files |-> <<Entry(SidecarName, DocAll)>>]}

RECURSIVE Ancestors(_, _)
Ancestors(d, n) == IF n = 0 THEN {} ELSE {d} \cup Ancestors(Dirname(d), n - 1)

\* the trees above a file: every ancestor directory that has a name is there,
\* listable or not
Dirs(filename) == Ancestors(Dirname(filename), SearchLevels) \ {<<>>}

Trees(filename) == [Dirs(filename) -> DirStates]

\* the trees with a sidecar that is not JSON at one level
BadTrees(filename) == {t \in [Dirs(filename) -> PlainStates \cup {BadListing}] : Cardinality({d \in DOMAIN t : t[d] = BadListing}) = 1 /\ Cardinality({t[d] : d \in DOMAIN t}) <= 2}

PlainTrees(filename) == [Dirs(filename) -> PlainStates]

NoTree == <<>>

\* tabular files
OnsetValues == {<<>>, <<"9">>, <<"1", "0">>}

OtherValues == {<<"x">>, <<"y">>}

FieldValues(name) == IF name = "onset" THEN OnsetValues ELSE OtherValues

SurplusValues == {<<>>, <<"9">>}

Headers == {<<"onset">>, <<"onset", "a">>, <<"a", "a">>}

FullRows(h) == {r \in [1..Len(h) -> OnsetValues \cup OtherValues] : \A j \in 1..Len(h) : r[j] \in FieldValues(h[j])}

\* a row with fewer or more fields than the header, or a blank line
RaggedRows(h) == UNION {[1..k -> SurplusValues] : k \in (0..(Len(h) + 1)) \ {Len(h)}}

WellFormedFiles == UNION {{[header |-> h, rows |-> r] : r \in SeqsUpTo(FullRows(h), MaxRows)} : h \in Headers}

RaggedFiles == UNION {{[header |-> h, rows |-> Append(r, x)] : r \in SeqsUpTo(FullRows(h), MaxRows - 1), x \in RaggedRows(h)} : h \in Headers}

OddFiles == {Absent, EmptyFile, [header |-> <<>>, rows |-> <<>>]}

TsvFiles == WellFormedFiles \cup RaggedFiles \cup OddFiles

SmallTsv == [header |-> <<"onset", "a">>, rows |-> <<<<<<"9">>, <<"1", "0">>>>>>]

\* every row of the file has as many fields as its header, which has some
WellFormed(content) ==
    /\ content \notin {Absent, EmptyFile}
    /\ Len(content.header) >= 1
    /\ \A i \in DOMAIN content.rows : Len(content.rows[i]) = Len(content.header)

\* binary containers
LabelChoices == {NoneValue, List(<<>>), List(<<"onset">>), List(<<"column0", "onset">>), List(<<"a", "a", "trial_type", "value">>)}

\* array values: onsets that fall along the rows, or one onset for all rows
Falling(r, c) == [shape |-> <<r, c>>, v |-> [i \in 1..r |-> [j \in 1..c |-> 2 * (r - i) + j]]]

Level(r, c) == [shape |-> <<r, c>>, v |-> [i \in 1..r |-> [j \in 1..c |-> IF j = 1 THEN 1 ELSE i + j]]]

Arrays == {Falling(r, c) : r \in 0..MaxEvents, c \in 0..MaxCols} \cup {Level(r, c) : r \in 0..MaxEvents, c \in 0..MaxCols}

OneDimension == [shape |-> <<2>>, flat |-> <<1, 2>>]

FirstStims == {[name |-> <<"A">>, dataLabels |-> l, data |-> d] : l \in LabelChoices, d \in Arrays}

SecondStims ==
    { [name |-> <<"B">>, dataLabels |-> NoneValue, data |-> Level(2, 2)],
      [name |-> <<"B">>, dataLabels |-> List(<<"b">>), data |-> Falling(1, 1)],
      [name |-> <<"A">>, dataLabels |-> List(<<"a", "onset">>), data |-> Falling(2, 3)],
      [name |-> <<"B">>, dataLabels |-> NoneValue, data |-> OneDimension] }

Containers ==
    {Absent, [nirs |-> <<>>], [nirs |-> <<<<>>>>], [nirs |-> <<<<[name |-> <<"B">>, dataLabels |-> NoneValue, data |-> OneDimension]>>>>]}
    \cup {[nirs |-> <<<<s>>>>] : s \in FirstStims}
    \cup {[nirs |-> <<<<s, t>>>>] : s \in {x \in FirstStims : x.data.shape = <<1, 1>>}, t \in SecondStims}
    \cup {[nirs |-> <<<<s>>, <<t>>>>] : s \in {x \in FirstStims : x.data.shape = <<1, 2>>}, t \in SecondStims}

SmallContainer == [nirs |-> <<<<[name |-> <<"A">>, dataLabels |-> NoneValue, data |-> Falling(2, 2)]>>>>]

LoadInput(filename, sidecar, ls, content) == [filename |-> filename, sidecar |-> sidecar, ls |-> ls, content |-> content]

TsvInputs ==
    {LoadInput(DeepTsv, s, NoTree, c) : s \in {NoSidecar, PathSidecar(DocAll)}, c \in TsvFiles}
    \cup {LoadInput(DeepTsv, s, NoTree, SmallTsv) : s \in {PathSidecar(DocOnset), PathSidecar(DocNoDict)}}

SnirfInputs ==
    {LoadInput(DeepSnirf, s, NoTree, c) : s \in {NoSidecar, PathSidecar(DocAll)}, c \in Containers}
    \cup {LoadInput(DeepSnirf, s, NoTree, SmallContainer) : s \in {PathSidecar(DocOnset), PathSidecar(DocNoDict)}}

SearchInputs ==
    {LoadInput(DeepTsv, SearchSidecar, t, SmallTsv) : t \in Trees(DeepTsv) \cup BadTrees(DeepTsv)}
    \cup {LoadInput(ShallowTsv, SearchSidecar, t, SmallTsv) : t \in Trees(ShallowTsv)}
    \cup {LoadInput(DeepSnirf, SearchSidecar, t, SmallContainer) : t \in PlainTrees(DeepSnirf)}

OtherInputs ==
    {LoadInput(NoTaskTsv, s, NoTree, SmallTsv) : s \in {NoSidecar, SearchSidecar}}
    \cup {LoadInput(CsvFile, s, NoTree, SmallTsv) : s \in {NoSidecar, PathSidecar(DocOnset), PathSidecar(Malformed)}}
    \cup {LoadInput(DeepTsv, PathSidecar(Malformed), NoTree, SmallTsv), LoadInput(DeepSnirf, PathSidecar(Malformed), NoTree, SmallContainer)}
    \cup {LoadInput(DeepTsv, PathSidecar(d), NoTree, c) : d \in {DocText, DocList, DocNull}, c \in {SmallTsv, [header |-> <<>>, rows |-> <<>>]}}
    \cup {LoadInput(DeepSnirf, PathSidecar(d), NoTree, c) : d \in {DocText, DocList, DocNull}, c \in {SmallContainer, [nirs |-> <<>>]}}
    \cup {LoadInput(DeepTsv, SearchSidecar, [d \in Dirs(DeepTsv) |-> IF d = Dirname(DeepTsv) THEN [files |-> <<Entry(SidecarName, doc)>>] ELSE [files |-> <<>>]], SmallTsv) : doc \in {DocText, DocNull}}

FirstLoadInputs == TsvInputs \cup SnirfInputs \cup SearchInputs \cup OtherInputs

(***************************************************************************)
(* The state machine. columns, rows and task are the fields of one Events  *)
(* object; disk holds the two files save writes; ret is the outcome of the *)
(* last call (what it raised, what it returned), inp the arguments and     *)
(* files of the last load, trace the locals of that load and a copy of the *)
(* table as the last save found it. default_data is what the dict that is  *)
(* the default of EventColumn.__init__'s data parameter holds, and          *)
(* other_columns the columns of a second Events object.                    *)
(*                                                                         *)
(* The sessions explored: loads, sorts and column reads in any order, then *)
(* one save to paths that are not there yet, then loads of the saved files.*)
(***************************************************************************)
NoSave == [done |-> FALSE]

Init ==
    /\ columns = <<>>
    /\ rows = <<>>
    /\ task = NoneValue
    /\ ret = [op |-> "init", raised |-> "none"]
    /\ inp = [filename |-> <<>>]
    /\ trace = [sidecar_contents |-> NoneValue, listed |-> <<>>, labels |-> <<>>, tabular |-> FALSE, saved |-> NoSave]
    /\ disk = [tsv |-> Absent, json |-> Absent]
    /\ default_data = EmptyDict
    /\ other_columns = <<>>

\* self.load(filename, sidecar) in the file system of i
DoLoad(i) ==
    LET r == load(i.filename, i.sidecar, i.ls, i.content) IN
    /\ columns' = View(r.columns, default_data)
    /\ rows' = r.rows
    /\ task' = TaskOf(i.filename)
    /\ ret' = [op |-> "load", raised |-> r.raised]
    /\ inp' = i
    /\ trace' = [sidecar_contents |-> r.sidecar_contents, listed |-> r.listed, labels |-> r.labels,
                 tabular |-> r.raised = "none" /\ EndsWith(i.filename, EventsTsv) /\ WellFormed(i.content),
                 saved |-> trace.saved]
    /\ UNCHANGED <<disk, default_data, other_columns>>

\* the first load of a table: every input
Load ==
    /\ inp.filename = <<>>
    /\ disk.tsv = Absent
    /\ \E i \in FirstLoadInputs : DoLoad(i)

ReloadInputs ==
    { LoadInput(DeepTsv, NoSidecar, NoTree, SmallTsv),
      LoadInput(DeepTsv, PathSidecar(DocNoDict), NoTree, SmallTsv),
      LoadInput(DeepTsv, PathSidecar(Malformed), NoTree, SmallTsv),
      LoadInput(NoTaskTsv, SearchSidecar, NoTree, SmallTsv),
      LoadInput(CsvFile, NoSidecar, NoTree, SmallTsv),
      LoadInput(DeepSnirf, NoSidecar, NoTree, [nirs |-> <<<<[name |-> <<"A">>, dataLabels |-> NoneValue, data |-> Falling(1, 1)], [name |-> <<"B">>, dataLabels |-> NoneValue, data |-> OneDimension]>>>>]) }

\* a later load of the same table: load discards the table it finds, so the
\* inputs are a few of each kind
Reload ==
    /\ inp.filename # <<>>
    /\ disk.tsv = Absent
    /\ \E i \in ReloadInputs : DoLoad(i)

\* load of the files the last save wrote, with or without its sidecar
LoadSaved ==
    /\ disk.tsv # Absent
    /\ \E s \in {NoSidecar, PathSidecar(disk.json)} : DoLoad(LoadInput(OutTsv, s, NoTree, disk.tsv))

\* self.save(filename, sidecar) to paths that are not there yet
Save ==
    /\ disk.tsv = Absent
    /\ \E with_sidecar \in BOOLEAN :
        LET r == save(columns, rows, with_sidecar, disk) IN
        /\ disk' = r.disk
        /\ ret' = [op |-> "save", raised |-> r.raised]
        /\ trace' = [trace EXCEPT !.saved = [done |-> TRUE, columns |-> columns, rows |-> rows, tabular |-> trace.tabular, with_sidecar |-> with_sidecar]]
    /\ UNCHANGED <<columns, rows, task, inp, default_data, other_columns>>

\* self.sort_events()
SortEvents ==
    /\ disk.tsv = Absent
    /\ LET r == sort_events(rows) IN
        /\ rows' \in r.rows
        /\ ret' = [op |-> "sort_events", raised |-> r.raised]
    /\ UNCHANGED <<columns, task, inp, trace, disk, default_data, other_columns>>

ColumnArguments == {"onset", "a", "nonexistent"}

\* self.get_column(name)
GetColumn ==
    /\ disk.tsv = Absent
    /\ \E name \in ColumnArguments :
        LET r == get_column(rows, name) IN
        ret' = [op |-> "get_column", name |-> name, raised |-> r.raised, value |-> IF r.raised = "none" THEN r.value ELSE <<>>]
    /\ UNCHANGED <<columns, rows, task, inp, trace, disk, default_data, other_columns>>

Next == Load \/ Reload \/ LoadSaved \/ Save \/ SortEvents \/ GetColumn

Spec == Init /\ [][Next]_vars

(***************************************************************************)
(* Writes to a column's metadata by a caller of the class: col[item] =     *)
(* value, DictWrapper.__setitem__ (lines 45-46), which is also what a      *)
(* write through events.column_descriptions[name] does, since              *)
(* column_descriptions returns the columns' own dicts (line 240). The      *)
(* sessions explored: loads of a few files into two Events objects, and    *)
(* writes to the columns of the first.                                     *)
(***************************************************************************)
OwnershipInputs ==
    { LoadInput(DeepTsv, NoSidecar, NoTree, SmallTsv),
      LoadInput(DeepTsv, PathSidecar(DocOnset), NoTree, SmallTsv),
      LoadInput(DeepTsv, PathSidecar(DocAll), NoTree, SmallTsv),
      LoadInput(DeepSnirf, NoSidecar, NoTree, SmallContainer),
      LoadInput(DeepSnirf, NoSidecar, NoTree, [nirs |-> <<<<[name |-> <<"A">>, dataLabels |-> List(<<"onset">>), data |-> Falling(1, MaxCols)]>>>>]) }

\* self.load(filename, sidecar) on the first object
LoadOwn ==
    /\ \E i \in OwnershipInputs : DoLoad(i)
    /\ UNCHANGED other_columns

\* load(filename, sidecar) on the second object
LoadOther ==
    /\ \E i \in OwnershipInputs :
        LET r == load(i.filename, i.sidecar, i.ls, i.content) IN
        /\ other_columns' = View(r.columns, default_data)
        /\ ret' = [op |-> "load_other", raised |-> r.raised]
    /\ UNCHANGED <<columns, rows, task, inp, trace, disk, default_data>>

AnnotationKeys == {"Units"}

AnnotationValues == {"ms", "s"}

\* self._columns[j][item] = value: the dict the column holds is written in
\* place, and every column that holds the same dict reads the new item
Annotate ==
    /\ \E j \in DOMAIN columns : \E item \in AnnotationKeys : \E value \in AnnotationValues :
        /\ IF columns[j].own
           THEN /\ columns' = [columns EXCEPT ![j].data = DictSet(@, item, value)]
                /\ UNCHANGED <<default_data, other_columns>>
           ELSE /\ default_data' = DictSet(default_data, item, value)
                /\ columns' = View(columns, default_data')
                /\ other_columns' = View(other_columns, default_data')
        /\ ret' = [op |-> "annotate", raised |-> "none", column |-> j]
    /\ UNCHANGED <<rows, task, inp, trace, disk>>

NextOwnership == LoadOwn \/ LoadOther \/ Annotate

SpecOwnership == Init /\ [][NextOwnership]_vars

(***************************************************************************)
(* The claims.                                                             *)
(***************************************************************************)
\* the directory of search level k (0 is the directory of the file)
RECURSIVE LevelDir(_, _)
LevelDir(filename, k) == IF k = 0 THEN Dirname(filename) ELSE Dirname(LevelDir(filename, k - 1))

Levels == 0..(SearchLevels - 1)

SearchLoad == ret.op = "load" /\ inp.sidecar.kind = "search" /\ TaskOf(inp.filename) # <<>>

Listable(k) == LevelDir(inp.filename, k) \in DOMAIN inp.ls /\ "files" \in DOMAIN inp.ls[LevelDir(inp.filename, k)]

\* the metadata files of level k that the search accepts, in listing order
MatchesAt(k) ==
    IF Listable(k)
    THEN LET files == inp.ls[LevelDir(inp.filename, k)].files IN
         {i \in DOMAIN files : EndsWith(files[i].name, EventsJson) /\ Contains(files[i].name, TaskOf(inp.filename))}
    ELSE {}

MatchLevels == {k \in Levels : MatchesAt(k) # {}}

Nearest == CHOOSE k \in MatchLevels : \A j \in MatchLevels : k <= j

NearestDoc == LET files == inp.ls[LevelDir(inp.filename, Nearest)].files IN files[CHOOSE i \in MatchesAt(Nearest) : \A j \in MatchesAt(Nearest) : i <= j].content

\* C1: when metadata files for the task are at two or more of the levels
\* walked (every level can be listed and every such file is JSON), the search
\* gives the metadata of the nearest level and lists no level above it.
C1_NearestWins ==
    (/\ SearchLoad
     /\ Cardinality(MatchLevels) >= 2
     /\ \A k \in Levels : Listable(k)
     /\ \A k \in Levels : \A i \in MatchesAt(k) : inp.ls[LevelDir(inp.filename, k)].files[i].content # Malformed)
    => /\ trace.sidecar_contents = NearestDoc
       /\ trace.listed = [k \in 1..(Nearest + 1) |-> LevelDir(inp.filename, k - 1)]

\* C3: after a load every key of every record is the name of a column.
C3_ColumnSuperset ==
    ret.op = "load" => \A i \in DOMAIN rows : DOMAIN rows[i] \subseteq Range(column_names(columns))

\* C7: a load that raises leaves no column and no record.
C7_FailedLoadEmpty ==
    (ret.op = "load" /\ ret.raised # "none") => (columns = <<>> /\ rows = <<>>)

\* C10: a search that meets a level it cannot list, and no metadata file that
\* is not JSON, does not raise; when no level has a match the load goes on
\* with no metadata.
C10_TolerantSearch ==
    (/\ SearchLoad
     /\ \E k \in Levels : ~Listable(k)
     /\ \A k \in Levels : \A i \in MatchesAt(k) : inp.ls[LevelDir(inp.filename, k)].files[i].content # Malformed)
    => /\ ret.raised = "none"
       /\ MatchLevels = {} => (trace.sidecar_contents = NoneValue /\ \A i \in DOMAIN columns : columns[i].data = EmptyDict)

\* the decimal value of a text of digits
RECURSIVE Decimal(_, _)
Decimal(t, acc) == IF t = <<>> THEN acc ELSE Decimal(Tail(t), 10 * acc + (Ord(t[1]) - 48))

IsDecimal(t) == t # <<>> /\ \A i \in DOMAIN t : t[i] \in {"0", "1", "2", "3", "4", "5", "6", "7", "8", "9"}

HasNumericOnset(row) == "onset" \in DOMAIN row /\ (IsNum(row.onset) \/ (IsStr(row.onset) /\ IsDecimal(row.onset.s)))

OnsetValue(row) == IF IsNum(row.onset) THEN row.onset.n ELSE Decimal(row.onset.s, 0)

\* the one order that is ascending in the onset and keeps equal onsets in place
StableOnsetOrder(rws) ==
    CHOOSE p \in Permutations1(Len(rws)) : \A i, j \in 1..Len(rws) : i < j =>
        \/ OnsetValue(rws[p[i]]) < OnsetValue(rws[p[j]])
        \/ (OnsetValue(rws[p[i]]) = OnsetValue(rws[p[j]]) /\ p[i] < p[j])

SortStep == ret'.op = "sort_events" /\ disk.tsv = Absent /\ UNCHANGED <<columns, task, inp, trace, disk>>

\* C4: on a table with an onset column whose records all have a numeric
\* onset, sort_events returns and leaves the records in ascending numeric
\* onset order, equal onsets in their original order.
C4_OnsetSort ==
    [][(/\ SortStep
        /\ "onset" \in Range(column_names(columns))
        /\ \A i \in DOMAIN rows : HasNumericOnset(rows[i]))
       => /\ ret'.raised = "none"
          /\ rows' = [i \in DOMAIN rows |-> rows[StableOnsetOrder(rows)[i]]]]_vars

\* C5: on a table with records and no onset column, sort_events returns
\* normally and leaves the columns and the records as they were.
C5_SortWithoutOnset ==
    [][(/\ SortStep
        /\ rows # <<>>
        /\ "onset" \notin Range(column_names(columns)))
       => /\ ret'.raised = "none"
          /\ rows' = rows
          /\ columns' = columns]_vars

GetColumnStep == ret'.op = "get_column" /\ UNCHANGED <<task, inp, trace, disk>>

\* C6: in every table state, records or none, get_column of a name that is
\* no column and no key of a record raises the missing-column error and
\* leaves the table as it was; of a name that every record has, it returns
\* the records' values for it in record order.
C6_MissingColumn ==
    [][GetColumnStep
       => /\ (ret'.name \notin Range(column_names(columns)) /\ \A i \in DOMAIN rows : ret'.name \notin DOMAIN rows[i])
             => (ret'.raised = "KeyError" /\ rows' = rows /\ columns' = columns)
          /\ (\A i \in DOMAIN rows : ret'.name \in DOMAIN rows[i])
             => (ret'.raised = "none" /\ ret'.value = [i \in DOMAIN rows |-> rows[i][ret'.name]])]_vars

SavedLoad == ret.op = "load" /\ inp.filename = OutTsv /\ trace.saved.done

\* C2: a table loaded from a well-formed tabular file (and metadata file),
\* saved with its sidecar and loaded again from the two files written, has
\* the same column names in the same order, the same metadata for every
\* column and the same records in the same order.
C2_RoundTrip ==
    (/\ SavedLoad
     /\ inp.sidecar.kind = "path"
     /\ trace.saved.tabular
     /\ trace.saved.with_sidecar)
    => /\ ret.raised = "none"
       /\ column_names(columns) = column_names(trace.saved.columns)
       /\ \A i \in DOMAIN columns : columns[i].data = trace.saved.columns[i].data
       /\ rows = trace.saved.rows

C2_Witness ==
    /\ SavedLoad
    /\ inp.sidecar.kind = "path"
    /\ trace.saved.tabular
    /\ trace.saved.with_sidecar
    /\ Len(trace.saved.rows) >= 2
    /\ Len(trace.saved.columns) >= 2
    /\ \E i \in DOMAIN trace.saved.columns : trace.saved.columns[i].data # EmptyDict
    /\ trace.saved.rows[1] # trace.saved.rows[2]

SnirfLoad == ret.op = "load" /\ EndsWith(inp.filename, DotSnirf) /\ inp.content # Absent /\ trace.labels # <<>>

Stims == Flatten(inp.content.nirs)

DeclaredLabels(stim) == IF IsNone(stim.dataLabels) THEN <<"onset", "duration", "value">> ELSE stim.dataLabels.l

\* the label list the claim gives a stream with n array columns
ClaimedLabels(stim) ==
    LET n == stim.data.shape[2]
        kept == Min(Len(DeclaredLabels(stim)), n)
    IN [j \in 1..(n + 1) |->
          IF j <= kept THEN DeclaredLabels(stim)[j]
          ELSE IF j <= n THEN ColumnFormat(j - kept - 1)
          ELSE "trial_type"]

\* the number of records the streams before stream k gave
RECURSIVE RowsBefore(_, _)
RowsBefore(stims, k) == IF k <= 1 THEN 0 ELSE RowsBefore(stims, k - 1) + stims[k - 1].data.shape[1]

\* the record of the table built from array row i of stream k
StimRecord(k, i) == rows[RowsBefore(Stims, k) + i]

\* C8: the label list of a stream with n array columns is its first min(k, n)
\* labels, then column0, column1, ... for the columns left, then trial_type,
\* n + 1 entries in all; and every record built from the stream has n + 1
\* values, one per array column plus trial_type.
C8_LabelsAndRecordSize ==
    SnirfLoad =>
        \A k \in DOMAIN trace.labels :
            /\ trace.labels[k] = ClaimedLabels(Stims[k])
            /\ Len(trace.labels[k]) = Stims[k].data.shape[2] + 1
            /\ ret.raised = "none" => \A i \in 1..Stims[k].data.shape[1] :
                   Cardinality(DOMAIN StimRecord(k, i)) = Stims[k].data.shape[2] + 1

BuiltInDefault(name) ==
    IF name = "onset" THEN [Description |-> SNIRF_STIM_ONSET_DESCRIPTION, Units |-> SNIRF_STIM_ONSET_UNITS]
    ELSE IF name = "duration" THEN [Description |-> SNIRF_STIM_DURATION_DESCRIPTION, Units |-> SNIRF_STIM_DURATION_UNITS]
    ELSE IF name = "value" THEN [Description |-> SNIRF_STIM_AMPLITUDE_DESCRIPTION]
    ELSE IF name = "trial_type" THEN [trial_type |-> SNIRF_STIM_NAME_DESCRIPTION]
    ELSE <<>>

\* C9: after the load of a binary container, a column whose name is a key of
\* the resolved sidecar has the sidecar's value as metadata, and any other
\* column has its built-in default, or none.
C9_SidecarPrecedence ==
    (ret.op = "load" /\ EndsWith(inp.filename, DotSnirf)) =>
        \A i \in DOMAIN columns :
            IF IsObj(trace.sidecar_contents) /\ columns[i].name \in DOMAIN trace.sidecar_contents.obj
            THEN columns[i].data = trace.sidecar_contents.obj[columns[i].name].obj
            ELSE columns[i].data = BuiltInDefault(columns[i].name)

\* the data rows of the loaded tabular file that are not blank lines and have
\* more or fewer fields than the header
RaggedRowsOf(content) == {i \in DOMAIN content.rows : content.rows[i] # <<>> /\ Len(content.rows[i]) # Len(content.header)}

TabularLoad == ret.op = "load" /\ EndsWith(inp.filename, EventsTsv) /\ inp.content \notin {Absent, EmptyFile}

\* C11: the load of a tabular file in which some data row has more or fewer
\* fields than the header raises, and the table does not hold the row.
C11_RaggedRowsRejected ==
    (TabularLoad /\ inp.sidecar.kind = "none" /\ RaggedRowsOf(inp.content) # {})
    => /\ ret.raised # "none"
       /\ Len(rows) < Cardinality({i \in DOMAIN inp.content.rows : inp.content.rows[i] # <<>>})

\* some record of the table rws lacks the key of a column of cols
LacksKey(cols, rws) == \E i \in DOMAIN rws : \E j \in DOMAIN cols : cols[j].name \notin DOMAIN rws[i]

SaveStep == ret'.op = "save" /\ disk.tsv = Absent /\ UNCHANGED <<task, inp>>

\* C12: on a table in which some record lacks the key of a column, save
\* returns normally, writes the column names in column order as the header
\* and one row per record in record order, with an empty field where the
\* record lacks the column's key, and leaves the columns and the records as
\* they were.
C12_EmptyFieldOnSave ==
    [][(SaveStep /\ LacksKey(columns, rows))
       => /\ ret'.raised = "none"
          /\ disk'.tsv.header = [j \in DOMAIN columns |-> columns[j].name]
          /\ Len(disk'.tsv.rows) = Len(rows)
          /\ \A i \in DOMAIN rows :
                /\ Len(disk'.tsv.rows[i]) = Len(columns)
                /\ \A j \in DOMAIN columns :
                      IF columns[j].name \in DOMAIN rows[i]
                      THEN disk'.tsv.rows[i][j] = FieldText(rows[i][columns[j].name])
                      ELSE disk'.tsv.rows[i][j] = <<>>
          /\ columns' = columns
          /\ rows' = rows]_vars

C12_Witness ==
    /\ ret.op = "save"
    /\ ret.raised = "none"
    /\ trace.saved.done
    /\ LacksKey(trace.saved.columns, trace.saved.rows)
    /\ Len(rows) >= 2
    /\ rows = trace.saved.rows
    /\ \E i \in DOMAIN rows : \E j \in DOMAIN columns :
          /\ columns[j].name \notin DOMAIN rows[i]
          /\ disk.tsv.rows[i][j] = <<>>
          /\ \E m \in DOMAIN columns : m > j /\ columns[m].name \in DOMAIN rows[i] /\ disk.tsv.rows[i][m] # <<>>

\* the column of name has an entry in the sidecar of the load, or a built-in
\* default in a load of a binary container
GivenMetadata(name) ==
    \/ IsObj(trace'.sidecar_contents) /\ name \in DOMAIN trace'.sidecar_contents.obj
    \/ EndsWith(inp'.filename, DotSnirf) /\ BuiltInDefault(name) # <<>>

\* C13: a column that a load creates with no sidecar entry and no built-in
\* default starts with empty metadata; and a write of one annotation to one
\* column changes the metadata of no other column of the table and of no
\* column of another table.
C13_OwnedMetadata ==
    [][/\ (ret'.op = "load" /\ ret'.raised = "none")
          => \A i \in DOMAIN columns' : ~GivenMetadata(columns'[i].name) => columns'[i].data = <<>>
       /\ (ret'.op = "annotate" /\ UNCHANGED <<rows, task, inp, trace, disk>>)
          => /\ Len(columns') = Len(columns)
             /\ \A k \in DOMAIN columns : columns'[k].name = columns[k].name
             /\ \A k \in DOMAIN columns \ {ret'.column} : columns'[k].data = columns[k].data
             /\ Len(other_columns') = Len(other_columns)
             /\ \A k \in DOMAIN other_columns : other_columns'[k].data = other_columns[k].data]_vars

====
